---- MODULE Spec2Model ----
(***************************************************************************)
(* Model of src/src/package.js: the per-directory configuration memo       *)
(* (Package.get / getInfo / readInfo), the options merge (createOptions /  *)
(* createCJS) and the cache load done by the Package constructor.          *)
(***************************************************************************)
EXTENDS Integers, Sequences, FiniteSets, TLC

Range(seq) == {seq[i] : i \in DOMAIN seq}

\* Bind(v, LAMBDA x : e) is e with x naming the value of v, as `const x = v`
Only(set) == CHOOSE x \in set : TRUE
Bind(v, K(_)) == Only({K(x) : x \in {v}})

(***************************************************************************)
(* JavaScript values.  Every value has the same record shape so that any   *)
(* two of them can be compared: t is the value's type tag, b / n / s the    *)
(* payload of a boolean / number / string, a the items of an array, and     *)
(* keys / o the own keys (in insertion order) of a record and, in the same  *)
(* order, their values.                                                     *)
(***************************************************************************)
CJSNames ==
  <<"cache", "extensions", "interop", "mutableNamespace", "namedExports",
    "paths", "topLevelReturn", "vars">>

PUndef == [t |-> "undefined", b |-> FALSE, n |-> 0, s |-> ""]
PBool(x) == [t |-> "boolean", b |-> x, n |-> 0, s |-> ""]
PNum(x) == [t |-> "number", b |-> FALSE, n |-> x, s |-> ""]
PStr(x) == [t |-> "string", b |-> FALSE, n |-> 0, s |-> x]

JUndef ==
  [t |-> "undefined", b |-> FALSE, n |-> 0, s |-> "", a |-> <<>>,
   keys |-> <<>>, o |-> <<>>]
JNull == [JUndef EXCEPT !.t = "null"]
JBool(x) == [JUndef EXCEPT !.t = "boolean", !.b = x]
JNum(x) == [JUndef EXCEPT !.t = "number", !.n = x]
JStr(x) == [JUndef EXCEPT !.t = "string", !.s = x]
JArr(items) == [JUndef EXCEPT !.t = "array", !.a = items]
JObj(ks, fields) == [JUndef EXCEPT !.t = "object", !.keys = ks, !.o = fields]

\* value[name]
Field(v, name) ==
  LET at == {i \in DOMAIN v.keys : v.keys[i] = name}
  IN IF at = {} THEN PUndef ELSE v.o[CHOOSE i \in at : TRUE]

\* The `!! value` coercion.
Truthy(v) ==
  CASE v.t = "boolean" -> v.b
    [] v.t = "number" -> v.n # 0
    [] v.t = "string" -> v.s # ""
    [] v.t \in {"undefined", "null"} -> FALSE
    [] OTHER -> TRUE

NotNot(v) == Truthy(v)

(***************************************************************************)
(* Options records handed to createOptions: a string (the mode), a record  *)
(* with own keys `keys` (insertion order) and values `val`, or a value      *)
(* without own keys (undefined).                                            *)
(***************************************************************************)
SchemaNames ==
  <<"await", "cache", "cjs", "debug", "mainFields", "mode", "sourceMap",
    "warnings">>

\* The names every object literal inherits from Object.prototype (the model
\* keeps one of them)
ObjectPrototypeNames == {"constructor"}

\* Reflect.has(object, name) for an object literal with the own keys `own`
ReflectHas(own, name) == name \in Range(own) \/ name \in ObjectPrototypeNames

TopKeyUniverse ==
  Range(SchemaNames) \cup ObjectPrototypeNames \cup {"sourcemap", "foo", "bar"}

NoVals == [k \in TopKeyUniverse |-> JUndef]

TUndef == [t |-> "undefined", s |-> "", keys |-> <<>>, val |-> <<>>]
TTrue == [TUndef EXCEPT !.t = "true"]
\* no such file / no such field
Absent == [TUndef EXCEPT !.t = "absent"]
\* an executable activation file whose evaluation raises
ScriptRaises == [TUndef EXCEPT !.t = "raises"]
TStr(x) == [t |-> "string", s |-> x, keys |-> <<>>, val |-> <<>>]
TObj(ks, vals) == [t |-> "object", s |-> "", keys |-> ks, val |-> vals]
\* a record from its keys and a table of values
TRec(ks, table) == TObj(ks, [i \in DOMAIN ks |-> table[ks[i]]])

\* value[name]
ValOf(value, name) ==
  LET at == {i \in DOMAIN value.keys : value.keys[i] = name}
  IN IF at = {} THEN JUndef ELSE value.val[CHOOSE i \in at : TRUE]

\* Package.defaultOptions.cjs and autoOptions.cjs
defaultCJS == JObj(CJSNames, [i \in DOMAIN CJSNames |-> PBool(FALSE)])

autoCJS ==
  JObj(CJSNames,
       [i \in DOMAIN CJSNames |-> PBool(CJSNames[i] # "topLevelReturn")])

AddKey(ks, k) == IF k \in Range(ks) THEN ks ELSE Append(ks, k)

VARIABLES
  env,          \* ENV of the process: [NYC, DEVELOPMENT]
  fs,           \* the directory tree: per directory its activation files and manifest
  disk,         \* the cache directories on disk: path -> [names, version]
  state,        \* Package.state: [cache (the memo), default]
  heap,         \* the Package instances, by identity
  caches,       \* the cache objects {buffer, compile, map}, by identity
  dir,          \* shared.package.dir: cache path -> cache object
  root,         \* shared.package.root: directory -> root directory
  moduleState,  \* shared.moduleState: [parseOnly, parsing]
  last,         \* the last Package.get call and its outcome
  optIn,        \* the value handed to createOptions
  optOut,       \* what createOptions(optIn) produced
  optOut2,      \* what createOptions produced on optOut's record
  history,      \* the processes run on this disk: [boots, discarded]
  pending       \* the deferred writes handed to writeFileDefer

\* The values imported from ./constant/package.js
OPTIONS_MODE_ALL == JStr("all")
OPTIONS_MODE_AUTO == JStr("auto")
OPTIONS_MODE_STRICT == JStr("strict")
RANGE_ALL == "*"

defaultOptions ==
  [k \in TopKeyUniverse |->
     CASE k = "await" -> JBool(FALSE)
       [] k = "cache" -> JBool(TRUE)
       [] k = "cjs" -> defaultCJS
       [] k = "debug" -> JBool(FALSE)
       [] k = "mainFields" -> JArr(<<"main">>)
       [] k = "mode" -> JStr("strict")
       [] k = "warnings" -> JBool(env.DEVELOPMENT)
       [] OTHER -> JUndef]

Throw(code, key, sub) == [code |-> code, key |-> key, sub |-> sub, options |-> <<>>]
Return(o) == [code |-> "ok", key |-> "", sub |-> "", options |-> <<o>>]
NoResult == [code |-> "none", key |-> "", sub |-> "", options |-> <<>>]

(***************************************************************************)
(* createCJS(value): [err, cjs].  err is the unknown toggle name, or "".   *)
(***************************************************************************)
\* BroadcastCJS, were the value dropped for the defaults
BroadcastCJS_Defaults(value) == defaultCJS

\* lines 263-270: a value that is no record is broadcast to every toggle
BroadcastCJS(value) ==
  JObj(CJSNames, [i \in DOMAIN CJSNames |-> PBool(NotNot(value))])

\* lines 249-261: listed toggles coerced, the others from defaultCJS
MergeCJS(value) ==
  LET listed == Range(value.keys)
      rest == SelectSeq(CJSNames, LAMBDA k : k \notin listed)
      names == value.keys \o rest
  IN JObj(names,
          [i \in DOMAIN names |->
             IF names[i] \in listed THEN PBool(NotNot(Field(value, names[i])))
             ELSE Field(defaultCJS, names[i])])

createCJS(value) ==
  IF value.t = "undefined" THEN [err |-> "", cjs |-> defaultCJS]
  ELSE IF value.t = "array" /\ value.a # <<>> THEN [err |-> "0", cjs |-> JUndef]
  ELSE IF value.t \in {"object", "array"} THEN
    LET bad == {i \in DOMAIN value.keys : ~ReflectHas(CJSNames, value.keys[i])}
    IN IF bad # {}
       THEN [err |-> value.keys[CHOOSE i \in bad : \A j \in bad : i <= j],
             cjs |-> JUndef]
       ELSE [err |-> "", cjs |-> MergeCJS(value)]
  ELSE [err |-> "", cjs |-> BroadcastCJS(value)]

(***************************************************************************)
(* createOptions(value)                                                    *)
(***************************************************************************)
\* lines 289-290: the legacy key is taken only without its replacement
AcceptsLegacy(name, possibleNames) ==
  name = "sourcemap" /\ "sourceMap" \notin Range(possibleNames)

\* lines 283-300: the loop over the record's own keys, from index i on
RECURSIVE ScanNames(_, _, _)
ScanNames(value, i, acc) ==
  IF i > Len(value.keys) THEN acc
  ELSE LET name == value.keys[i] IN
    IF ReflectHas(SchemaNames, name) THEN
      ScanNames(value, i + 1,
                [acc EXCEPT !.names = Append(@, name),
                            !.keys = AddKey(@, name),
                            !.val[name] = ValOf(value, name)])
    ELSE IF AcceptsLegacy(name, value.keys) THEN
      IF ValOf(value, "sourcemap").t # "undefined" THEN
        ScanNames(value, i + 1,
                  [acc EXCEPT !.names = Append(@, "sourceMap"),
                              !.keys = AddKey(@, "sourceMap"),
                              !.val["sourceMap"] =
                                 JBool(NotNot(ValOf(value, "sourcemap")))])
      ELSE ScanNames(value, i + 1, acc)
    ELSE [acc EXCEPT !.err = name]

\* lines 279-301
ReadNames(value) ==
  IF value.t = "string"
  THEN [names |-> <<"mode">>, keys |-> <<"mode">>,
        val |-> [NoVals EXCEPT !["mode"] = JStr(value.s)], err |-> ""]
  ELSE ScanNames(value, 1,
                 [names |-> <<>>, keys |-> <<>>, val |-> NoVals, err |-> ""])

\* lines 303-309: the baseline for a record that names no cjs / no mode
Baseline(acc) ==
  LET a1 == IF "cjs" \notin Range(acc.names)
            THEN [acc EXCEPT !.keys = AddKey(@, "cjs"), !.val["cjs"] = autoCJS]
            ELSE acc
  IN IF "mode" \notin Range(a1.names)
     THEN [a1 EXCEPT !.keys = AddKey(@, "mode"), !.val["mode"] = JStr("auto")]
     ELSE a1

\* line 313: defaults(options, defaultOptions)
Defaults(acc) ==
  LET missing == SelectSeq(SchemaNames, LAMBDA k : k \notin Range(acc.keys))
  IN [acc EXCEPT
        !.keys = @ \o missing,
        !.val = [k \in TopKeyUniverse |->
                   IF k \in Range(SchemaNames) /\ acc.val[k].t = "undefined"
                   THEN defaultOptions[k] ELSE acc.val[k]]]

\* lines 316-324
MainFieldsOK(mainFields) == mainFields.t \in {"array", "string"}

NormalizeMainFields(mainFields) ==
  IF mainFields.t = "array" THEN JArr(mainFields.a) ELSE JArr(<<mainFields.s>>)

\* lines 326-336
ModeOK(mode) == mode \in {JStr("all"), JStr("auto"), JStr("strict")}

NormalizeMode(mode) ==
  IF mode = JStr("all") THEN OPTIONS_MODE_ALL
  ELSE IF mode = JStr("auto") THEN OPTIONS_MODE_AUTO
  ELSE OPTIONS_MODE_STRICT

\* CoerceCache, were the coercion a single negation
CoerceCache_Negates(cache) ==
  IF cache.t # "string" THEN JBool(~NotNot(cache)) ELSE cache

\* lines 338-340
CoerceCache(cache) == IF cache.t # "string" THEN JBool(NotNot(cache)) ELSE cache

\* lines 342-343
CoerceFlag(flag) == JBool(NotNot(flag))

createOptions(value) ==
  LET scan == ReadNames(value) IN
  IF scan.err # "" THEN Throw("ERR_UNKNOWN_ESM_OPTION", scan.err, "")
  ELSE
    LET o1 == Baseline(scan)
        cjsOptions == createCJS(o1.val["cjs"])
    IN
    IF cjsOptions.err # "" THEN Throw("ERR_UNKNOWN_ESM_OPTION", "cjs", cjsOptions.err)
    ELSE
      LET o2 == Defaults(o1)
          mainFields == o2.val["mainFields"]
          mode == o2.val["mode"]
      IN
      IF ~MainFieldsOK(mainFields) THEN Throw("ERR_INVALID_ESM_OPTION", "mainFields", "")
      ELSE IF ~ModeOK(mode) THEN Throw("ERR_INVALID_ESM_OPTION", "mode", "")
      ELSE
        Return(TRec(o2.keys,
                    [o2.val EXCEPT
                       !["cjs"] = cjsOptions.cjs,
                       !["mainFields"] = NormalizeMainFields(mainFields),
                       !["mode"] = NormalizeMode(mode),
                       !["cache"] = CoerceCache(@),
                       !["debug"] = CoerceFlag(@),
                       !["warnings"] = CoerceFlag(@)]))

(***************************************************************************)
(* Paths are sequences of segments below the root <<"/">>; <<>> is the     *)
(* empty path "".                                                           *)
(***************************************************************************)
ROOT == <<"/">>
EMPTY == <<>>

dirname(p) == IF Len(p) <= 1 THEN p ELSE SubSeq(p, 1, Len(p) - 1)
basename(p) == IF Len(p) <= 1 THEN "" ELSE p[Len(p)]

\* resolve(dirPath, cache) for the cache strings of the model
resolve(dirPath, str) ==
  CASE str = "/shared" -> <<"/", "shared">>
    [] str = "../up" -> Append(dirname(dirPath), "up")
    [] OTHER -> Append(dirPath, str)

\* semver's validRange: the normalised range, or null
NullRange == "null"

validRange(str) ==
  CASE str = "^1.0.0" -> ">=1.0.0 <2.0.0"
    [] str = "2.x" -> ">=2.0.0 <3.0.0"
    [] str = "*" -> "*"
    [] OTHER -> NullRange

PKG_VERSION == "3.0.0"
OLD_VERSION == "2.9.9"

\* ENV.OPTIONS: no options given in the environment
OPTIONS == TUndef

\* References.  A Package instance is named by the directory whose readInfo
\* call constructed it and its number among the instances constructed there,
\* so that two constructions never yield the same reference.
Unset == [k |-> "unset", d |-> EMPTY, n |-> 0]
Null == [k |-> "null", d |-> EMPTY, n |-> 0]
Ref(d, n) == [k |-> "pkg", d |-> d, n |-> n]
Deref(S, ref) == S.heap[ref.d][ref.n]

Ret(S, res) == [S |-> S, out |-> "return", res |-> res, err |-> NoResult]
Raise(S, err) == [S |-> S, out |-> "throw", res |-> Null, err |-> err]
Overflow(S) ==
  [S |-> S, out |-> "overflow", res |-> Null, err |-> Throw("RangeError", "", "")]

(***************************************************************************)
(* The cache load of the Package constructor, lines 128-204                *)
(***************************************************************************)
DotNames == {".data.blob", ".data.json", ".dirty", ".nyc"}
JsonNames == {".data.json", "babel.json"}

readdir(S, path) == IF path \in DOMAIN S.disk THEN S.disk[path].names ELSE <<>>

removeFile(S, path, name) ==
  IF path \in DOMAIN S.disk
  THEN [S EXCEPT !.disk[path].names = SelectSeq(@, LAMBDA n : n # name)]
  ELSE S

\* lines 146-161: the names the loop looks at; it stops at the dirty marker
Enumerated(cacheNames) ==
  LET at == {i \in DOMAIN cacheNames : cacheNames[i] = ".dirty"}
  IN IF at = {} THEN cacheNames
     ELSE SubSeq(cacheNames, 1, CHOOSE i \in at : \A j \in at : i <= j)

\* MarkerInvalid, were the coverage marker not held against NYC
MarkerInvalid_DirtyOnly(hasDirtyMarker, hasNycMarker) == hasDirtyMarker

\* lines 163-169
MarkerInvalid(hasDirtyMarker, hasNycMarker) ==
  \/ hasDirtyMarker
  \/ env.NYC /\ ~hasNycMarker
  \/ ~env.NYC /\ hasNycMarker

\* VersionInvalid, were the version stamp never held against the cache
VersionInvalid_Never(version) == version # version

\* line 176
VersionInvalid(version) == version # PKG_VERSION

\* lines 230-239
clearBabelCache(S, cachePath) ==
  LET babelCachePath == dirname(cachePath) \o <<"@babel", "register">>
  IN IF babelCachePath \in DOMAIN S.disk
     THEN [S EXCEPT !.disk[babelCachePath].names =
                       SelectSeq(@, LAMBDA n : n \notin JsonNames)]
     ELSE S

\* lines 187-200: what is kept of the directory once its validity is known
LoadedCache(isCacheInvalid, seen, hasBuffer, hasMap) ==
  [buffer |-> IF hasBuffer /\ ~isCacheInvalid THEN "blob" ELSE "empty",
   compile |-> IF isCacheInvalid THEN {}
               ELSE {n \in Range(seen) : n \notin DotNames},
   map |-> IF hasMap /\ ~isCacheInvalid THEN "map" ELSE "{}",
   results |-> <<>>]

LoadCache(S, cachePath) ==
  LET made == IF cachePath \in DOMAIN S.caches THEN S.caches[cachePath] ELSE <<>>
      cacheNames == readdir(S, cachePath)
      seen == Enumerated(cacheNames)
      hasBuffer == ".data.blob" \in Range(seen)
      hasMap == ".data.json" \in Range(seen)
      hasDirtyMarker == ".dirty" \in Range(seen)
      hasNycMarker == ".nyc" \in Range(seen)
      noNycHasMarker == ~env.NYC /\ hasNycMarker
      markerInvalid == MarkerInvalid(hasDirtyMarker, hasNycMarker)
      isCacheInvalid ==
        IF hasMap /\ ~markerInvalid
        THEN VersionInvalid(S.disk[cachePath].version)
        ELSE markerInvalid
      S1 == IF hasDirtyMarker THEN removeFile(S, cachePath, ".dirty") ELSE S
      S2 == IF noNycHasMarker THEN removeFile(S1, cachePath, ".nyc") ELSE S1
      S3 == IF isCacheInvalid THEN clearBabelCache(S2, cachePath) ELSE S2
      cache == IF cachePath = EMPTY
               THEN [buffer |-> "null", compile |-> {}, map |-> "null",
                     results |-> <<>>]
               ELSE LoadedCache(isCacheInvalid, seen, hasBuffer, hasMap)
      S4 == IF cachePath = EMPTY THEN S ELSE S3
  IN [S4 EXCEPT
        !.caches = (cachePath :> Append(made, cache)) @@ @,
        !.dir = (cachePath :> Len(made) + 1) @@ @]

(***************************************************************************)
(* new Package(dirPath, range, options), lines 111-211                     *)
(***************************************************************************)
\* lines 116-122
CachePathOf(dirPath, cache) ==
  IF cache.t = "string" THEN resolve(dirPath, cache.s)
  ELSE IF cache # JBool(FALSE)
  THEN (IF dirPath = EMPTY THEN ROOT ELSE dirPath) \o <<"node_modules", ".cache", "esm">>
  ELSE EMPTY

\* Registered, were the registry of cache paths never consulted
Registered_Never(S, cachePath) == cachePath \in {}

\* lines 124-128: shared.package.dir holds a cache object for the path
Registered(S, cachePath) == cachePath \in DOMAIN S.dir

\* `site` is the directory whose resolution constructs the instance
NewPackage(S, site, dirPath, range, options) ==
  Bind(createOptions(options), LAMBDA made :
    IF made.code # "ok" THEN Raise(S, made)
    ELSE
      LET opts == made.options[1]
          cachePath == CachePathOf(dirPath, ValOf(opts, "cache"))
      IN
      Bind(IF Registered(S, cachePath) THEN S ELSE LoadCache(S, cachePath),
           LAMBDA S1 :
        Ret([S1 EXCEPT !.heap[site] =
               Append(@, [cache |-> S1.dir[cachePath], cachePath |-> cachePath,
                          dirPath |-> dirPath, options |-> opts, range |-> range])],
            Ref(site, Len(S1.heap[site]) + 1))))

(***************************************************************************)
(* Resolution: findRoot, getRoot, getRange, getInfo, readInfo              *)
(***************************************************************************)
ESMRC_FILENAME == ".esmrc"
\* line 98: the activation files _findPath looks for, in order
searchNames == <<".esmrc.mjs", ".esmrc.js", ".esmrc.json">>
RcNames == {ESMRC_FILENAME} \cup Range(searchNames)

\* The files of the model's trees.  fs[d] names at most one activation file
\* (rc, "-" for none) and the options it holds (opt), whether d holds a
\* package.json (pkg), the constraints it declares for the tool ("-" for
\* none) and its "esm" field (esm, "-" for none).
OptionFile(key) ==
  CASE key = "empty" -> TObj(<<>>, <<>>)
    [] key = "cacheOff" -> TObj(<<"cache">>, <<JBool(FALSE)>>)
    [] key = "cacheStr" -> TObj(<<"cache">>, <<JStr(".cache")>>)
    [] key = "cacheShared" -> TObj(<<"cache">>, <<JStr("/shared")>>)
    [] key = "foo" -> TObj(<<"foo">>, <<JNum(1)>>)
    [] key = "badMode" -> TObj(<<"mode">>, <<JStr("invalid")>>)
    [] key = "badMainFields" -> TObj(<<"mainFields">>, <<JNum(7)>>)
    [] key = "all" -> TStr("all")
    [] key = "true" -> TTrue
    [] key = "raises" -> ScriptRaises
    [] OTHER -> Absent

BadOptions == {"foo", "badMode", "badMainFields"}

\* readFile(dirPath + sep + name) of an activation file, parsed
RcFile(dirPath, name) ==
  IF fs[dirPath].rc = name THEN OptionFile(fs[dirPath].opt) ELSE Absent

\* readFileFast(dirPath + sep + PACKAGE_FILENAME), parsed
ManifestOf(dirPath) ==
  [present |-> fs[dirPath].pkg,
   dependencies |-> fs[dirPath].deps,
   peerDependencies |-> fs[dirPath].peer,
   devDependencies |-> fs[dirPath].dev,
   esm |-> OptionFile(fs[dirPath].esm)]

isFilePackageJSON(dirPath) == fs[dirPath].pkg

RECURSIVE findRoot(_)
findRoot(dirPath) ==
  IF basename(dirPath) = "node_modules" \/ isFilePackageJSON(dirPath) THEN dirPath
  ELSE LET parentPath == dirname(dirPath) IN
    IF parentPath = dirPath THEN EMPTY
    ELSE IF basename(parentPath) = "node_modules" THEN dirPath
    ELSE findRoot(parentPath)

\* lines 411-420: [S, path]
getRoot(S, dirPath) ==
  IF S.root[dirPath] # EMPTY THEN [S |-> S, path |-> S.root[dirPath]]
  ELSE LET found == IF findRoot(dirPath) # EMPTY THEN findRoot(dirPath) ELSE dirPath
       IN [S |-> [S EXCEPT !.root[dirPath] = found], path |-> found]

\* lines 399-409; a manifest that does not declare the tool holds "-"
getRange(json, name) ==
  IF json.present /\ json[name] # "-" THEN validRange(json[name]) ELSE NullRange

\* MemoHit, were a forced call to bypass every memo entry
MemoHit_ForceBypasses(memo, force) == memo # Unset /\ ~force

\* lines 368-375: the memo answers the call
MemoHit(memo, force) == memo # Unset /\ (~force \/ memo # Null)

\* ForceRetry, were the second read never made
ForceRetry_Never(force, pkg) == force /\ pkg # Null

\* ForceRetry, were the second read made for unforced calls too
ForceRetry_Unforced(force, pkg) == pkg = Null

\* lines 391-392: a forced call that found nothing reads again
ForceRetry(force, pkg) == force /\ pkg = Null

\* lines 464-465: no manifest, and the call is not forced
NoManifest(force, hasPkgJSON) == ~force /\ ~hasPkgJSON

\* DeclaredRange, were peerDependencies consulted before dependencies
DeclaredRange_PeerFirst(json) ==
  IF getRange(json, "peerDependencies") # NullRange
  THEN getRange(json, "peerDependencies")
  ELSE getRange(json, "dependencies")

\* lines 500-502
DeclaredRange(json) ==
  IF getRange(json, "dependencies") # NullRange
  THEN getRange(json, "dependencies")
  ELSE getRange(json, "peerDependencies")

\* FallbackRange, were a development-only declaration to count only beside
\* options
FallbackRange_OptionsOnly(json, optionsFound) ==
  IF optionsFound THEN RANGE_ALL ELSE NullRange

\* lines 505-510
FallbackRange(json, optionsFound) ==
  IF optionsFound \/ getRange(json, "devDependencies") # NullRange
  THEN RANGE_ALL ELSE NullRange

\* lines 486-512
RangeFor(S, json, force, parentPkg, optionsFound) ==
  IF force THEN RANGE_ALL
  ELSE IF parentPkg # Null THEN Deref(S, parentPkg).range
  ELSE IF DeclaredRange(json) # NullRange THEN DeclaredRange(json)
  ELSE FallbackRange(json, optionsFound)

\* lines 432: the first activation file found beside ESMRC_FILENAME, or ""
findPath(dirPath) ==
  LET at == {i \in DOMAIN searchNames : RcFile(dirPath, searchNames[i]) # Absent}
  IN IF at = {} THEN "" ELSE searchNames[CHOOSE i \in at : \A j \in at : i <= j]

\* Restore, were the flags put back only after a load that returns
Restore_OnReturn(S, saved, raised) ==
  IF raised THEN S ELSE [S EXCEPT !.ms = saved]

\* lines 453-456: the finally block puts the loader flags back
Restore(S, saved, raised) == [S EXCEPT !.ms = saved]

\* lines 441-456: an executable activation file is loaded
LoadScript(S, dirPath, exports) ==
  Bind(NewPackage([S EXCEPT !.ms = [parseOnly |-> FALSE, parsing |-> FALSE]],
                  dirPath, dirPath, RANGE_ALL, TUndef),
       LAMBDA made :
    IF made.out # "return" THEN made
    ELSE
      LET S2 == [made.S EXCEPT !.cache[dirPath] = made.res,
                               !.loads = Append(@, made.S.ms)]
      IN
      IF exports = ScriptRaises
      THEN Raise(Restore(S2, S.ms, TRUE), Throw("LoadError", "", ""))
      ELSE
        Bind(createOptions(exports), LAMBDA options :
          IF options.code # "ok" THEN Raise(Restore(S2, S.ms, TRUE), options)
          ELSE Ret([Restore(S2, S.ms, FALSE) EXCEPT
                      !.heap[made.res.d][made.res.n].options = options.options[1]],
                   made.res)))

RECURSIVE getInfo(_, _, _, _), readInfo(_, _, _, _)

\* lines 460-530, after the activation file was read
ReadManifest(S, dirPath, force, fuel, rcFound, rcOptions, pkg) ==
  LET json == ManifestOf(dirPath)
      fromManifest == ~rcFound /\ json.present /\ json.esm # Absent
      optionsFound == rcFound \/ fromManifest
      options == IF fromManifest THEN json.esm ELSE rcOptions
      given == IF options = TTrue \/ ~optionsFound THEN OPTIONS ELSE options
  IN
  IF NoManifest(force, json.present) /\ ~rcFound THEN Ret(S, Null)
  ELSE
    Bind(IF NoManifest(force, json.present)
         THEN getInfo(S, dirname(dirPath), FALSE, fuel)
         ELSE Ret(S, Null),
         LAMBDA parent :
      IF parent.out # "return" THEN parent
      ELSE
        LET range == RangeFor(parent.S, json, force, parent.res, optionsFound) IN
        IF range = NullRange THEN Ret(parent.S, Null)
        ELSE IF pkg # Null
        THEN Ret([parent.S EXCEPT !.heap[pkg.d][pkg.n].range = range], pkg)
        ELSE
          Bind(IF ~json.present THEN getRoot(parent.S, dirPath)
               ELSE [S |-> parent.S, path |-> dirPath],
               LAMBDA at : NewPackage(at.S, dirPath, at.path, range, given)))

\* lines 422-530
readInfo(S, dirPath, force, fuel) ==
  LET plain == RcFile(dirPath, ESMRC_FILENAME)
      optionsPath == IF plain # Absent THEN "" ELSE findPath(dirPath)
      rcFound == plain # Absent \/ optionsPath # ""
      isScript == optionsPath \notin {"", ".esmrc.json"}
      rcOptions == IF plain # Absent THEN plain
                   ELSE IF optionsPath = ".esmrc.json" THEN RcFile(dirPath, optionsPath)
                   ELSE TUndef
  IN
  Bind(IF isScript
       THEN LoadScript([S EXCEPT !.reads = @ + 1], dirPath, RcFile(dirPath, optionsPath))
       ELSE Ret([S EXCEPT !.reads = @ + 1], Null),
       LAMBDA loaded :
    IF loaded.out # "return" THEN loaded
    ELSE ReadManifest(loaded.S, dirPath, force, fuel, rcFound, rcOptions, loaded.res))

\* what the unforced readInfo(dirPath) of line 377 came to, kept in S.infos
Noted(read, dirPath) ==
  [read EXCEPT !.S.infos =
     Append(@, [dir |-> dirPath, out |-> read.out, res |-> read.res,
                range |-> IF read.res.k = "pkg"
                          THEN Deref(read.S, read.res).range ELSE NullRange])]

\* lines 365-397; fuel is the room left on the call stack
getInfo(S, dirPath, force, fuel) ==
  IF fuel = 0 THEN Overflow(S)
  ELSE
    Bind([S EXCEPT !.calls = Append(@, dirPath)], LAMBDA S0 :
      IF MemoHit(S0.cache[dirPath], force) THEN Ret(S0, S0.cache[dirPath])
      ELSE IF basename(dirPath) = "node_modules"
      THEN Ret([S0 EXCEPT !.cache[dirPath] = Null], Null)
      ELSE
        Bind(readInfo(S0, dirPath, FALSE, fuel - 1), LAMBDA own :
          IF own.out # "return" THEN Noted(own, dirPath)
          ELSE
            Bind(IF own.res = Null /\ dirname(dirPath) # dirPath
                 THEN getInfo(Noted(own, dirPath).S, dirname(dirPath), FALSE,
                              fuel - 1)
                 ELSE Noted(own, dirPath),
                 LAMBDA up :
              IF up.out # "return" THEN up
              ELSE
                Bind(IF ForceRetry(force, up.res)
                     THEN readInfo(up.S, dirPath, TRUE, fuel - 1)
                     ELSE up,
                     LAMBDA again :
                  IF again.out # "return" THEN again
                  ELSE Ret([again.S EXCEPT !.cache[dirPath] = again.res],
                           again.res)))))

(***************************************************************************)
(* The directory trees and option files the model is run on                *)
(***************************************************************************)
A == <<"/", "a">>
NM == <<"/", "a", "node_modules">>
M == <<"/", "a", "node_modules", "m">>
CWD == A

Dirs == {ROOT, A, NM, M}
AllDirs == Dirs \cup {EMPTY}
ProjectDirs == {ROOT, A, M}

Ancestors(d) == {SubSeq(d, 1, i) : i \in 1..Len(d)}

Files(rc, opt, deps, peer, dev, esm) ==
  [rc |-> rc, opt |-> opt, pkg |-> TRUE, deps |-> deps, peer |-> peer,
   dev |-> dev, esm |-> esm]
OnlyRc(rc, opt) ==
  [rc |-> rc, opt |-> opt, pkg |-> FALSE, deps |-> "-", peer |-> "-",
   dev |-> "-", esm |-> "-"]
EmptyDir == OnlyRc("-", "-")

\* Directory contents used to populate a tree
TreeContents ==
  { Files("-", "-", "^1.0.0", "-", "-", "-"),
    Files("-", "-", "-", "-", "-", "-"),
    Files("-", "-", "-", "-", "^1.0.0", "-"),
    Files(".esmrc", "empty", "-", "-", "^1.0.0", "-"),
    Files("-", "-", "-", "-", "-", "all"),
    OnlyRc(".esmrc", "cacheOff"),
    OnlyRc(".esmrc.json", "foo"),
    OnlyRc(".esmrc.js", "cacheOff"),
    OnlyRc(".esmrc.js", "badMode"),
    Files(".esmrc.js", "foo", "^1.0.0", "-", "-", "-"),
    Files(".esmrc", "badMainFields", "latest", "*", "-", "-"),
    OnlyRc(".esmrc.mjs", "raises") }

\* At most MaxPopulated directories of a tree hold files
MaxPopulated == 1
\* Room on the call stack, in nested getInfo calls
StackLimit == 6

Populated(tree) == {d \in AllDirs : tree[d] # EmptyDir}

TreesOn(ds) ==
  {[d \in AllDirs |-> IF d \in ds THEN f[d] ELSE EmptyDir] : f \in [ds -> TreeContents]}

Trees ==
  UNION {TreesOn(ds) : ds \in {x \in SUBSET ProjectDirs : Cardinality(x) <= MaxPopulated}}

(***************************************************************************)
(* State after the module is loaded, lines 532-538                         *)
(***************************************************************************)
\* no compile job
NoJob ==
  [pkgInfo |-> Null, filePath |-> "", cacheFileName |-> "", request |-> "",
   type |-> "", scheduled |-> FALSE]

NoCall ==
  [op |-> "none", dir |-> EMPTY, force |-> FALSE, out |-> "return", res |-> Null,
   err |-> NoResult, reads |-> 0, calls |-> <<>>, loads |-> <<>>, was |-> Unset,
   infos |-> <<>>, job |-> NoJob, tick |-> 0]

\* no cache directory on disk
NoDisk == [x \in {} |-> [names |-> <<>>, version |-> ""]]

Blank(d, ms) ==
  [cache |-> [x \in AllDirs |-> Unset], heap |-> [x \in AllDirs |-> <<>>],
   caches |-> [x \in {} |-> <<>>], dir |-> [x \in {} |-> 0], root |-> [x \in AllDirs |-> EMPTY], disk |-> d,
   ms |-> ms, reads |-> 0, calls |-> <<>>, loads |-> <<>>, infos |-> <<>>]

InMemoryOptions == TObj(<<"cache", "cjs">>, <<JBool(FALSE), JBool(TRUE)>>)

Loaded(d, ms) ==
  Bind(NewPackage(Blank(d, ms), EMPTY, EMPTY, PKG_VERSION, InMemoryOptions),
       LAMBDA made : [made.S EXCEPT !.cache[EMPTY] = made.res])

\* The load constructs one Package, whose cache path is empty: it reads no
\* directory, whatever the disk holds.
Start(ms) ==
  \E L \in {Loaded(NoDisk, ms)} :
    /\ moduleState = ms
    /\ state = [cache |-> L.cache, default |-> Null]
    /\ heap = L.heap
    /\ caches = L.caches
    /\ dir = L.dir
    /\ root = L.root
    /\ last = NoCall

NoOptions ==
  /\ optIn = TUndef
  /\ optOut = NoResult
  /\ optOut2 = NoResult

\* the first process on this disk, no write handed over yet
NoHistory == [boots |-> 0, discarded |-> {}, compiles |-> 0]
Quiet == history = NoHistory /\ pending = {}

Init ==
  /\ env = [NYC |-> FALSE, DEVELOPMENT |-> FALSE]
  /\ Start([parseOnly |-> TRUE, parsing |-> TRUE])
  /\ disk = NoDisk
  /\ fs \in Trees
  /\ NoOptions
  /\ Quiet

(***************************************************************************)
(* Package.get(dirPath, force), lines 213-219                              *)
(***************************************************************************)
Now ==
  [cache |-> state.cache, heap |-> heap, caches |-> caches, dir |-> dir,
   root |-> root, disk |-> disk, ms |-> moduleState, reads |-> 0,
   calls |-> <<>>, loads |-> <<>>, infos |-> <<>>]

OrDefault(res) == IF res # Null THEN res ELSE state.default

\* last.tick tells a call that changes nothing else from no call at all
Get(d, force) ==
  LET dirPath == IF d = <<".">> THEN CWD ELSE d IN
  \E r \in {getInfo(Now, dirPath, force, StackLimit)} :
   \E report \in {[op |-> "get", dir |-> dirPath, force |-> force, out |-> r.out,
                   res |-> IF r.out = "return" THEN OrDefault(r.res) ELSE Null,
                   err |-> r.err, reads |-> r.S.reads, calls |-> r.S.calls,
                   loads |-> r.S.loads, was |-> state.cache[dirPath],
                   infos |-> r.S.infos, job |-> NoJob, tick |-> last.tick]} :
     /\ state' = [state EXCEPT !.cache = r.S.cache]
     /\ heap' = r.S.heap
     /\ caches' = r.S.caches
     /\ dir' = r.S.dir
     /\ root' = r.S.root
     /\ disk' = r.S.disk
     /\ moduleState' = r.S.ms
     /\ last' = [report EXCEPT
                  !.tick = IF /\ report = last /\ r.S.cache = state.cache
                              /\ r.S.heap = heap /\ r.S.caches = caches
                              /\ r.S.dir = dir /\ r.S.root = root
                              /\ r.S.disk = disk /\ r.S.ms = moduleState
                           THEN 1 - last.tick ELSE 0]
     /\ UNCHANGED <<env, fs, optIn, optOut, optOut2, pending>>

vars ==
  <<env, fs, disk, state, heap, caches, dir, root, moduleState, last, optIn,
    optOut, optOut2, history, pending>>

Next ==
  \E d \in AllDirs \cup {<<".">>}, force \in BOOLEAN :
    Get(d, force) /\ UNCHANGED history

Spec == Init /\ [][Next]_vars

(***************************************************************************)
(* createOptions on its own: the records it is handed                      *)
(***************************************************************************)
\* A record holds at most MaxKeys keys
MaxKeys == 2

OptionValues(k) ==
  CASE k = "await" -> {JBool(TRUE), JStr("x")}
    [] k = "cache" -> {JBool(FALSE), JStr(".cache"), JNum(0)}
    [] k = "cjs" ->
         {JBool(TRUE), JBool(FALSE), JUndef,
          JObj(<<"interop">>, <<PBool(TRUE)>>),
          JObj(<<"vars", "paths">>, <<PNum(1), PStr("")>>),
          JObj(<<"bogus">>, <<PBool(TRUE)>>)}
    [] k = "debug" -> {JNum(1), JBool(FALSE)}
    [] k = "mainFields" -> {JStr("module"), JArr(<<"module", "main">>), JNum(7)}
    [] k = "mode" -> {JStr("all"), JStr("auto"), JStr("strict"), JStr("invalid")}
    [] k = "sourceMap" -> {JBool(TRUE), JUndef}
    [] k = "warnings" -> {JStr(""), JBool(TRUE)}
    [] k = "sourcemap" -> {JNum(1), JUndef, JBool(FALSE)}
    [] OTHER -> {JNum(1)}

Extended(r) ==
  UNION {{TObj(Append(r.keys, k), Append(r.val, v)) : v \in OptionValues(k)} :
           k \in TopKeyUniverse \ Range(r.keys)}

RECURSIVE Records(_)
Records(n) ==
  IF n = 0 THEN {TObj(<<>>, <<>>)}
  ELSE Records(n - 1) \cup UNION {Extended(r) : r \in Records(n - 1)}

OptionInputs(n) ==
  {TUndef, TStr("all"), TStr("auto"), TStr("strict"), TStr("invalid")}
    \cup Records(n)

InitOptions ==
  /\ env \in {[NYC |-> FALSE, DEVELOPMENT |-> dev] : dev \in BOOLEAN}
  /\ Start([parseOnly |-> TRUE, parsing |-> TRUE])
  /\ disk = NoDisk
  /\ fs = [d \in AllDirs |-> EmptyDir]
  /\ optIn \in OptionInputs(MaxKeys)
  /\ optOut = NoResult
  /\ optOut2 = NoResult
  /\ Quiet

\* Package.createOptions(optIn)
Merge ==
  /\ optOut = NoResult
  /\ optOut' = createOptions(optIn)
  /\ UNCHANGED <<env, fs, disk, state, heap, caches, dir, root, moduleState,
                 last, optIn, optOut2, history, pending>>

\* Package.createOptions on the record the first call returned
Remerge ==
  /\ optOut.code = "ok"
  /\ optOut2 = NoResult
  /\ optOut2' = createOptions(optOut.options[1])
  /\ UNCHANGED <<env, fs, disk, state, heap, caches, dir, root, moduleState,
                 last, optIn, optOut, history, pending>>

NextOptions == Merge \/ Remerge

SpecOptions == InitOptions /\ [][NextOptions]_vars

(***************************************************************************)
(* The cache load: directory listings found on disk at the first           *)
(* construction of a Package for a cache path                              *)
(***************************************************************************)
\* A cache directory lists at most MaxNames names
MaxNames == 3

CacheNames == DotNames \cup {"a.js", "b.js"}

Listings(max) ==
  {q \in UNION {[1..n -> CacheNames] : n \in 0..max} :
     \A i, j \in DOMAIN q : i # j => q[i] # q[j]}

DefaultCachePath(d) == CachePathOf(d, JBool(TRUE))

BabelCachePath(d) == dirname(DefaultCachePath(d)) \o <<"@babel", "register">>

\* The cache directory of d holds `names`, its .data.json (when listed) the
\* version stamp `version`; the sibling @babel/register cache holds two files.
DiskOf(d, names, version) ==
  (DefaultCachePath(d) :> [names |-> names, version |-> version]) @@
  (BabelCachePath(d) :> [names |-> <<"babel.json", "b.js">>, version |-> ""])

Stamps(names) ==
  IF ".data.json" \in Range(names) THEN {PKG_VERSION, OLD_VERSION} ELSE {""}

InitCache ==
  /\ env \in {[NYC |-> nyc, DEVELOPMENT |-> FALSE] : nyc \in BOOLEAN}
  /\ Start([parseOnly |-> TRUE, parsing |-> TRUE])
  /\ \E d \in {A, M}, names \in Listings(MaxNames) :
       \E version \in Stamps(names) :
         /\ disk = DiskOf(d, names, version)
         /\ fs = [x \in AllDirs |->
                    IF x = d THEN Files("-", "-", "^1.0.0", "-", "-", "-")
                    ELSE EmptyDir]
  /\ NoOptions
  /\ Quiet

\* The processes run one after the other on a disk
MaxBoots == 1

\* the names of a listing that are payload files, line 147
Payload(names) == {n \in Range(names) : n \notin DotNames}

\* the cache directories this step loads although they hold the dirty marker
\* beside a .data.json of the running version, with the payload they hold
DiscardedNow ==
  {[path |-> cp, names |-> Payload(disk[cp].names)] :
     cp \in {x \in DOMAIN disk :
               /\ x \notin DOMAIN dir /\ x \in DOMAIN dir'
               /\ {".dirty", ".data.json"} \subseteq Range(disk[x].names)
               /\ disk[x].version = PKG_VERSION}}

\* Package.get on the directory whose cache is on disk
GetCached(d, force) ==
  /\ Get(d, force)
  /\ history' = [history EXCEPT !.discarded = @ \cup DiscardedNow]

\* The process ends and another one loads the module, lines 532-538: the
\* memo, the instances and the cache-path registry start anew, the disk stays.
Restart ==
  /\ history.boots < MaxBoots
  /\ \E L \in {Loaded(disk, moduleState)} :
       /\ state' = [cache |-> L.cache, default |-> Null]
       /\ heap' = L.heap
       /\ caches' = L.caches
       /\ dir' = L.dir
       /\ root' = L.root
  /\ last' = [NoCall EXCEPT !.op = "restart"]
  /\ history' = [history EXCEPT !.boots = @ + 1]
  /\ UNCHANGED <<env, fs, disk, moduleState, optIn, optOut, optOut2, pending>>

NextCache ==
  \/ \E d \in Populated(fs), force \in BOOLEAN : GetCached(d, force)
  \/ Restart

SpecCache == InitCache /\ [][NextCache]_vars

(***************************************************************************)
(* The version range: the declarations a package.json makes for the tool   *)
(***************************************************************************)
RangeContents ==
  {[rc |-> r[1], opt |-> r[2], pkg |-> TRUE, deps |-> deps, peer |-> peer,
    dev |-> dev, esm |-> esm] :
     r \in {<<"-", "-">>, <<".esmrc", "empty">>, <<".esmrc.js", "empty">>},
     deps \in {"-", "^1.0.0", "latest"},
     peer \in {"-", "2.x", "latest"},
     dev \in {"-", "^1.0.0", "latest"},
     esm \in {"-", "all"}}

\* One directory holds a package.json; the root directory holds a project
\* or nothing.
InitRange ==
  /\ env = [NYC |-> FALSE, DEVELOPMENT |-> FALSE]
  /\ Start([parseOnly |-> TRUE, parsing |-> TRUE])
  /\ disk = NoDisk
  /\ \E d \in {A, M}, c \in RangeContents, above \in BOOLEAN :
       fs = [x \in AllDirs |->
               IF x = d THEN c
               ELSE IF x = ROOT /\ above
               THEN Files("-", "-", "^1.0.0", "-", "-", "-")
               ELSE EmptyDir]
  /\ NoOptions
  /\ Quiet

NextRange ==
  \E d \in {A, M}, force \in BOOLEAN : Get(d, force) /\ UNCHANGED history

SpecRange == InitRange /\ [][NextRange]_vars

(***************************************************************************)
(* Executable activation files and the loader flags                        *)
(***************************************************************************)
ScriptContents ==
  {[rc |-> rc, opt |-> opt, pkg |-> pkg, deps |-> IF pkg THEN "^1.0.0" ELSE "-",
    peer |-> "-", dev |-> "-", esm |-> "-"] :
     rc \in {".esmrc.js", ".esmrc.mjs"},
     opt \in {"empty", "cacheOff", "foo", "badMode", "raises"},
     pkg \in BOOLEAN}

\* One directory holds an executable activation file; the loader flags are
\* whatever the caller left them.
InitScript ==
  /\ env = [NYC |-> FALSE, DEVELOPMENT |-> FALSE]
  /\ \E ms \in [parseOnly : BOOLEAN, parsing : BOOLEAN] : Start(ms)
  /\ disk = NoDisk
  /\ \E d \in {A, M}, c \in ScriptContents :
       fs = [x \in AllDirs |-> IF x = d THEN c ELSE EmptyDir]
  /\ NoOptions
  /\ Quiet

NextScript ==
  \E d \in {A, M}, force \in BOOLEAN : Get(d, force) /\ UNCHANGED history

SpecScript == InitScript /\ [][NextScript]_vars

(***************************************************************************)
(* Compiler.compile and the deferred cache-file writes, lines 549-631      *)
(***************************************************************************)
\* At most MaxCompiles calls of Compiler.compile are made
MaxCompiles == 2

\* The entry names of the model: an 8-character prefix and a content key
EntryNames == {"aaaaaaaa0001.js", "aaaaaaaa0002.js", "bbbbbbbb0001.js"}

\* cacheFileName.slice(0, 8), line 601; a name of fewer than 8 characters is
\* its own slice
Slice8(name) ==
  CASE name \in {"aaaaaaaa0001.js", "aaaaaaaa0002.js"} -> "aaaaaaaa"
    [] name = "bbbbbbbb0001.js" -> "bbbbbbbb"
    [] OTHER -> name

\* key.startsWith(shortname), line 604, shortname being the slice of an entry
\* name
StartsWith(key, shortname) == Slice8(key) = shortname

\* path.extname(filePath), line 616
SourceExt(filePath) ==
  CASE filePath = "/a/x.mjs" -> ".mjs"
    [] filePath = "/a/x.js" -> ".js"
    [] OTHER -> ""

\* lines 552, 615: typeof options.filePath === "string"; "" stands for none
HasFilePath(filePath) == filePath # ""

\* lines 610-629: the type asked of the translator
toCompileOptions(filePath, pkgOptions) ==
  IF HasFilePath(filePath) /\ SourceExt(filePath) = ".mjs" THEN "module"
  ELSE IF ValOf(pkgOptions, "esm") = JStr("js") THEN "unambiguous"
  ELSE "script"

\* the result types of the translator
Types == {"script", "module", "unambiguous"}

\* IsModule, were every result but a script written
IsModule_NotScript(type) == type # "script"

\* line 576
IsModule(type) == type = "module"

\* cache.set(cacheFileName, result), line 569
CacheSet(cache, cacheFileName, type) ==
  [cache EXCEPT !.compile = @ \cup {cacheFileName},
                !.results = (cacheFileName :> type) @@ @]

\* cache.keys(), line 602
CacheKeys(cache) == cache.compile

\* writeFileDefer writes only below options.scopePath
InScope(filePath, scopePath) ==
  /\ Len(scopePath) <= Len(filePath)
  /\ SubSeq(filePath, 1, Len(scopePath)) = scopePath

\* lines 600-608
RECURSIVE removeExpired(_, _, _, _)
removeExpired(S, keys, cachePath, cacheFileName) ==
  IF keys = {} THEN S
  ELSE
    LET key == CHOOSE k \in keys : TRUE
        shortname == Slice8(cacheFileName)
        S1 == IF key # cacheFileName /\ StartsWith(key, shortname)
              THEN removeFile(S, cachePath, key) ELSE S
    IN removeExpired(S1, keys \ {key}, cachePath, cacheFileName)

\* the Package a reference names
Inst0(ref) == heap[ref.d][ref.n]

\* the cache object of a Package
CacheOf(pkgInfo) == caches[Inst0(pkgInfo).cachePath][Inst0(pkgInfo).cache]

\* lines 580-595: the write handed to writeFileDefer
Deferred(pkgInfo, cacheFileName) ==
  [id |-> Cardinality(pending) + 1,
   cachePath |-> Inst0(pkgInfo).cachePath, cacheFileName |-> cacheFileName,
   scopePath |-> Inst0(pkgInfo).dirPath, pkgInfo |-> pkgInfo, stage |-> "queued"]

\* Compiler.compile(code, options), lines 549-598.  `outcome` is what the
\* translator does with the code: the type of its result, or "throws".
Compile(pkgInfo, filePath, cacheFileName, outcome) ==
  LET p == Inst0(pkgInfo)
      scheduled == outcome # "throws" /\ HasFilePath(filePath) /\ IsModule(outcome)
      job == [pkgInfo |-> pkgInfo, filePath |-> filePath,
              cacheFileName |-> cacheFileName,
              request |-> toCompileOptions(filePath, p.options),
              type |-> outcome, scheduled |-> scheduled]
  IN
  /\ history.compiles < MaxCompiles
  /\ history' = [history EXCEPT !.compiles = @ + 1]
  /\ caches' = IF outcome = "throws" THEN caches
               ELSE [caches EXCEPT ![p.cachePath][p.cache] =
                                      CacheSet(@, cacheFileName, outcome)]
  /\ pending' = IF scheduled THEN pending \cup {Deferred(pkgInfo, cacheFileName)}
                ELSE pending
  /\ last' = [NoCall EXCEPT !.op = "compile", !.dir = p.dirPath,
                            !.out = IF outcome = "throws" THEN "throw" ELSE "return",
                            !.job = job]
  /\ UNCHANGED <<env, fs, disk, state, heap, dir, root, moduleState, optIn,
                 optOut, optOut2>>

\* The storage operation of a deferred write: the file is written when the
\* path is below the scope and the disk takes it
Write(t, ok) ==
  LET done == ok /\ InScope(t.cachePath, t.scopePath) IN
  /\ t.stage = "queued"
  /\ disk' = IF ~done THEN disk
             ELSE IF t.cachePath \in DOMAIN disk
             THEN [disk EXCEPT ![t.cachePath].names = AddKey(@, t.cacheFileName)]
             ELSE (t.cachePath :> [names |-> <<t.cacheFileName>>, version |-> ""])
                    @@ disk
  /\ pending' = (pending \ {t})
                  \cup {[t EXCEPT !.stage = IF done THEN "written" ELSE "failed"]}
  /\ UNCHANGED <<env, fs, state, heap, caches, dir, root, moduleState, last,
                 optIn, optOut, optOut2, history>>

\* The callback of a deferred write, lines 591-595
Done(t) ==
  /\ t.stage \in {"written", "failed"}
  /\ disk' = IF t.stage = "written"
             THEN removeExpired([disk |-> disk], CacheKeys(CacheOf(t.pkgInfo)),
                                t.cachePath, t.cacheFileName).disk
             ELSE disk
  /\ pending' = (pending \ {t})
                  \cup {[t EXCEPT !.stage = IF t.stage = "written" THEN "swept"
                                            ELSE "dropped"]}
  /\ UNCHANGED <<env, fs, state, heap, caches, dir, root, moduleState, last,
                 optIn, optOut, optOut2, history>>

\* The cache directory of /a as the process finds it
CompileListings ==
  {SelectSeq(<<".dirty", "aaaaaaaa0002.js", "bbbbbbbb0001.js">>,
             LAMBDA n : n \in keep) :
     keep \in SUBSET {".dirty", "aaaaaaaa0002.js", "bbbbbbbb0001.js"}}

InitCompile ==
  /\ env = [NYC |-> FALSE, DEVELOPMENT |-> FALSE]
  /\ Start([parseOnly |-> TRUE, parsing |-> TRUE])
  /\ \E names \in CompileListings, opt \in {"empty", "cacheShared"} :
       /\ disk = DiskOf(A, names, "")
       /\ fs = [x \in AllDirs |->
                  IF x = A THEN Files(".esmrc", opt, "^1.0.0", "-", "-", "-")
                  ELSE EmptyDir]
  /\ NoOptions
  /\ Quiet

\* The entry names a source has: the prefix names the source, the rest its
\* content and the options in force
NamesOf(filePath) ==
  CASE filePath = "/a/x.js" -> {"aaaaaaaa0001.js", "aaaaaaaa0002.js"}
    [] filePath = "/a/x.mjs" -> {"bbbbbbbb0001.js"}
    [] OTHER -> {"aaaaaaaa0001.js"}

\* The loader resolves the Package of /a and compiles the files of /a with
\* it; code without a file path is compiled with the Package of "".
NextCompile ==
  \/ Get(A, FALSE) /\ UNCHANGED history
  \/ \E filePath \in {"", "/a/x.js", "/a/x.mjs"}, outcome \in Types \cup {"throws"} :
       \E cacheFileName \in NamesOf(filePath) :
         LET d == IF HasFilePath(filePath) THEN A ELSE EMPTY IN
         /\ state.cache[d].k = "pkg"
         /\ Compile(state.cache[d], filePath, cacheFileName, outcome)
  \/ \E t \in pending, ok \in BOOLEAN : Write(t, ok)
  \/ \E t \in pending : Done(t)

SpecCompile == InitCompile /\ [][NextCompile]_vars

(***************************************************************************)
(* Properties of resolution                                                *)
(***************************************************************************)
Called(d, force) == last.op = "get" /\ last.dir = d /\ last.force = force

HasRc(d) == fs[d].rc # "-"

\* neither d nor an ancestor of d holds an activation file or a package.json
Bare(d) == \A x \in Ancestors(d) : ~HasRc(x) /\ ~fs[x].pkg

RangeOf(ref) == heap[ref.d][ref.n].range

DevOnly(d) ==
  /\ fs[d].pkg
  /\ fs[d].deps = "-" /\ fs[d].peer = "-"
  /\ validRange(fs[d].dev) # NullRange
  /\ fs[d].esm = "-"

C3_ForcedNeverNull ==
  \A d \in AllDirs :
    (Called(d, TRUE) /\ last.out = "return") => last.res.k = "pkg"

\* C3 as amended: a forced resolution of a directory D whose basename is not
\* node_modules that completes without raising returns a ProjectConfig, also
\* when D is memoized as null.
C3_ForcedNeverNullOutsideContainer ==
  \A d \in AllDirs :
    (Called(d, TRUE) /\ basename(d) # "node_modules" /\ last.out = "return")
      => last.res.k = "pkg"

C3_Witness ==
  \E d \in Dirs :
    /\ Called(d, TRUE) /\ basename(d) # "node_modules"
    /\ last.was = Null /\ last.reads > 1
    /\ last.out = "return" /\ last.res.k = "pkg"

\* C4: a memoized directory answers unforced calls with the memoized value
\* and no readInfo call, a memoized ProjectConfig answers forced calls too
\* and is never replaced, and a memoized null changes only by a forced call
\* on that directory.
C4_Memoized ==
  [][\A d \in AllDirs :
       /\ (Called(d, FALSE)' /\ state.cache[d] # Unset) =>
            (/\ last'.out = "return" /\ last'.res = state.cache[d]
             /\ last'.reads = 0)
       /\ (Called(d, TRUE)' /\ state.cache[d].k = "pkg") =>
            (/\ last'.out = "return" /\ last'.res = state.cache[d]
             /\ last'.reads = 0)
       /\ state.cache[d].k = "pkg" => state'.cache[d] = state.cache[d]
       /\ (state.cache[d] = Null /\ state'.cache[d] # Null) => Called(d, TRUE)'
    ]_vars

C4_Witness ==
  \E d \in Dirs :
    /\ Called(d, FALSE) /\ last.was.k = "pkg"
    /\ last.out = "return" /\ last.res = last.was /\ last.reads = 0

\* d holds an activation file whose options createOptions rejects
BadRc(d) == HasRc(d) /\ fs[d].opt \in BadOptions

\* C5: every call of Package.get on a directory D whose activation file
\* holds an unknown key or an invalid mode or mainFields value raises, and
\* leaves the memo entry of D as it was.
C5_ConfigErrorNeverSuppressed ==
  \A d \in Dirs, f \in BOOLEAN :
    (Called(d, f) /\ BadRc(d)) =>
      (last.out # "return" /\ state.cache[d] = last.was)

\* C6: every call of getInfo terminates; the recursion does not exhaust the
\* call stack, whatever the tree.
C6_Terminates == last.out # "overflow"

\* the Package instances constructed so far
Instances == UNION {{Ref(d, n) : n \in 1..Len(heap[d])} : d \in AllDirs}

Inst(ref) == heap[ref.d][ref.n]

\* C13: every cache path has one cache object, made by one scan of its
\* directory; the instances of equal cachePath hold that same object, also
\* those of the empty cachePath.
C13_OneCachePerPath ==
  /\ \A cp \in DOMAIN caches : Len(caches[cp]) = 1 /\ dir[cp] = 1
  /\ \A a \in Instances :
       Inst(a).cachePath \in DOMAIN dir /\ Inst(a).cache = dir[Inst(a).cachePath]
  /\ \A a, b \in Instances :
       Inst(a).cachePath = Inst(b).cachePath => Inst(a).cache = Inst(b).cache

C13_Witness ==
  \E a, b \in Instances :
    /\ a # b /\ Inst(a).cachePath = Inst(b).cachePath
    /\ Inst(a).cachePath # EMPTY /\ Inst(a).cache = Inst(b).cache

\* the cache path the options of an instance ask for
AskedCachePath(p) ==
  LET cache == ValOf(p.options, "cache") IN
  IF cache = JBool(FALSE) THEN EMPTY
  ELSE IF cache.t = "string" THEN resolve(p.dirPath, cache.s)
  ELSE (IF p.dirPath = EMPTY THEN ROOT ELSE p.dirPath)
         \o <<"node_modules", ".cache", "esm">>

\* C19: every Package the memo holds has the cachePath its options ask for:
\* empty exactly when options.cache is false, resolve(dirPath, options.cache)
\* for a string, <dirPath>/node_modules/.cache/esm otherwise.
C19_CachePathFollowsOptions ==
  \A d \in AllDirs :
    state.cache[d].k = "pkg" =>
      Inst(state.cache[d]).cachePath = AskedCachePath(Inst(state.cache[d]))

\* the package.json of d declares the tool with a valid range under `field`
Declares(d, field) == fs[d].pkg /\ validRange(fs[d][field]) # NullRange

\* d holds an activation file, or a package.json with an "esm" field
ConfigFound(d) == HasRc(d) \/ (fs[d].pkg /\ fs[d].esm # "-")

\* the range the claim gives a directory with a package.json
ClaimedRange(d) ==
  IF Declares(d, "deps") THEN validRange(fs[d].deps)
  ELSE IF Declares(d, "peer") THEN validRange(fs[d].peer)
  ELSE IF ConfigFound(d) \/ Declares(d, "dev") THEN RANGE_ALL
  ELSE NullRange

C17_LoaderFlagsRestored ==
  [][/\ moduleState' = moduleState
     /\ \A i \in DOMAIN last'.loads :
          last'.loads[i] = [parseOnly |-> FALSE, parsing |-> FALSE]]_vars

C17_Witness ==
  /\ last.op = "get" /\ last.out = "throw" /\ Len(last.loads) = 1
  /\ last.loads[1] = [parseOnly |-> FALSE, parsing |-> FALSE]
  /\ moduleState = [parseOnly |-> TRUE, parsing |-> TRUE]

(***************************************************************************)
(* Properties of the options merge                                         *)
(***************************************************************************)
CjsOf(options) == ValOf(options, "cjs")

SameOptions(x, y) ==
  /\ \A k \in Range(SchemaNames) \ {"cjs"} : ValOf(x, k) = ValOf(y, k)
  /\ \A n \in Range(CJSNames) : Field(CjsOf(x), n) = Field(CjsOf(y), n)

C8_CjsGroup ==
  optOut.code = "ok" =>
    LET cjsIn == CjsOf(optIn)
        cjsOut == CjsOf(optOut.options[1])
    IN /\ cjsIn.t = "boolean" =>
            \A n \in Range(CJSNames) : Field(cjsOut, n) = PBool(cjsIn.b)
       /\ cjsIn.t = "object" =>
            \A n \in Range(CJSNames) :
              Field(cjsOut, n) =
                IF n \in Range(cjsIn.keys) THEN PBool(Truthy(Field(cjsIn, n)))
                ELSE PBool(FALSE)
       /\ "cjs" \notin Range(optIn.keys) =>
            \A n \in Range(CJSNames) :
              Field(cjsOut, n) = PBool(n # "topLevelReturn")
       /\ (optIn.t # "string" /\ "mode" \notin Range(optIn.keys)) =>
            ValOf(optOut.options[1], "mode") = OPTIONS_MODE_AUTO

C8_Witness ==
  /\ optOut.code = "ok"
  /\ CjsOf(optIn) = JBool(TRUE)
  /\ \A n \in Range(CJSNames) : Field(CjsOf(optOut.options[1]), n) = PBool(TRUE)

\* the keys of a record that are outside the schema and are not the legacy
\* key without its replacement
Offending(value) ==
  {i \in DOMAIN value.keys :
     /\ value.keys[i] \notin Range(SchemaNames)
     /\ ~(value.keys[i] = "sourcemap" /\ "sourceMap" \notin Range(value.keys))}

\* C9: createOptions raises UnknownOptionKey for a key outside the schema,
\* the legacy key sourcemap being accepted only in a record without
\* sourceMap, and returns no record then.
C9_UnknownKeyRaises ==
  (optOut # NoResult /\ Offending(optIn) # {}) =>
    (/\ optOut.code = "ERR_UNKNOWN_ESM_OPTION"
     /\ optOut.key \in {optIn.keys[i] : i \in Offending(optIn)}
     /\ optOut.options = <<>>)

(***************************************************************************)
(* Properties of the cache load                                            *)
(***************************************************************************)
\* the cache directory cp holds a .data.json of another version
StaleStamp(cp) ==
  /\ cp \in DOMAIN disk
  /\ ".data.json" \in Range(disk[cp].names)
  /\ disk[cp].version # PKG_VERSION

CacheAt(cp) == caches[cp][dir[cp]]

\* C10: the first construction of a Package for a cache path whose
\* directory holds a .data.json of another version leaves cache.compile,
\* cache.buffer and cache.map empty, so that no name of the directory is
\* found in the index.
C10_StaleVersionLoadsEmpty ==
  [][\A cp \in DOMAIN disk :
       (StaleStamp(cp) /\ cp \notin DOMAIN dir /\ cp \in DOMAIN dir') =>
         (/\ CacheAt(cp)'.compile = {}
          /\ CacheAt(cp)'.buffer = "empty"
          /\ CacheAt(cp)'.map = "{}")]_vars

C10_Witness ==
  \E cp \in DOMAIN disk :
    /\ StaleStamp(cp) /\ cp \in DOMAIN dir
    /\ ".dirty" \notin Range(disk[cp].names)
    /\ (".nyc" \in Range(disk[cp].names)) = env.NYC
    /\ \E n \in Range(disk[cp].names) : n \notin DotNames
    /\ CacheAt(cp).compile = {}

\* the index of cp holds an entry, or the blob of cp was read
Trusted(cp) == CacheAt(cp).compile # {} \/ CacheAt(cp).buffer = "blob"

\* this step constructs the first Package of cache path cp
FirstLoad(cp) == cp \notin DOMAIN dir /\ cp \in DOMAIN dir'

\* C11 as stated: after a load the index holds an entry or the blob is read
\* only if the directory held a .data.json whose version stamp equals
\* PKG_VERSION and held no .dirty marker; a directory of payload files or a
\* .data.blob without .data.json is not trusted.
C11_TrustedOnlyWithStamp ==
  [][\A cp \in DOMAIN disk :
       (FirstLoad(cp) /\ Trusted(cp)') =>
         (/\ ".data.json" \in Range(disk[cp].names)
          /\ disk[cp].version = PKG_VERSION
          /\ ".dirty" \notin Range(disk[cp].names))]_vars

\* C11 as amended: after a load the index holds an entry or the blob is read
\* only if the directory held no .dirty marker, held the .nyc marker exactly
\* when NYC is set, and held no .data.json of another version; a directory
\* without .data.json is trusted.
C11_TrustedOnlyWithoutMismatch ==
  [][\A cp \in DOMAIN disk :
       (FirstLoad(cp) /\ Trusted(cp)') =>
         (/\ ".dirty" \notin Range(disk[cp].names)
          /\ (".nyc" \in Range(disk[cp].names)) = env.NYC
          /\ ".data.json" \in Range(disk[cp].names) =>
                disk[cp].version = PKG_VERSION)]_vars

C11_Witness ==
  \E cp \in DOMAIN disk :
    /\ cp \in DOMAIN dir
    /\ ".data.json" \notin Range(disk[cp].names)
    /\ ".data.blob" \in Range(disk[cp].names)
    /\ CacheAt(cp).compile # {} /\ CacheAt(cp).buffer = "blob"

\* C12: once a cache directory was loaded it holds no .dirty marker, and no
\* .nyc marker when NYC is not set, in whatever order readdir listed them.
C12_MarkersCleared ==
  \A cp \in DOMAIN disk \cap DOMAIN dir :
    /\ ".dirty" \notin Range(disk[cp].names)
    /\ ~env.NYC => ".nyc" \notin Range(disk[cp].names)

\* C20: a cache directory that was discarded for its .dirty marker, beside a
\* .data.json of the running version, yields no entry for the payload files
\* it held then, in the process that discarded it and in a later one.
C20_DirtyInvalidationDurable ==
  \A h \in history.discarded :
    h.path \in DOMAIN dir => CacheAt(h.path).compile \cap h.names = {}

(***************************************************************************)
(* Properties of compilation                                               *)
(***************************************************************************)
\* the step is a call of Compiler.compile
CompileStep == history'.compiles # history.compiles

\* C15: a call of Compiler.compile hands a write to writeFileDefer exactly
\* when a file path is given and the result has type "module"; it removes and
\* writes no file itself; whenever it returns, the result is in the cache
\* object of the Package under cacheFileName; and no later write or callback
\* changes a cache object.
C15_CompileDispatch ==
  [][/\ CompileStep =>
          LET job == last'.job
              p == Inst0(job.pkgInfo)
              cache == caches'[p.cachePath][p.cache]
          IN
          /\ disk' = disk
          /\ pending \subseteq pending'
          /\ last'.out = "throw" => pending' = pending /\ caches' = caches
          /\ last'.out = "return" =>
               /\ pending' # pending
                    <=> (HasFilePath(job.filePath) /\ job.type = "module")
               /\ \A t \in pending' \ pending :
                    t.stage = "queued" /\ t.cacheFileName = job.cacheFileName
               /\ job.cacheFileName \in CacheKeys(cache)
               /\ cache.results[job.cacheFileName] = job.type
     /\ (~CompileStep /\ pending' # pending) => caches' = caches
    ]_vars

\* a result with a file path that is no module was registered with no write,
\* after a module whose write failed stayed registered
C15_Witness ==
  /\ last.op = "compile" /\ last.out = "return"
  /\ HasFilePath(last.job.filePath) /\ last.job.type = "unambiguous"
  /\ last.job.cacheFileName \in CacheKeys(CacheOf(last.job.pkgInfo))
  /\ \E t \in pending :
       /\ t.stage = "dropped"
       /\ t.cacheFileName # last.job.cacheFileName
       /\ t.cacheFileName \in CacheKeys(CacheOf(t.pkgInfo))

\* the step is the callback of the successful deferred write t
SweepStep(t) ==
  /\ t \in pending /\ t.stage = "written"
  /\ pending' = (pending \ {t}) \cup {[t EXCEPT !.stage = "swept"]}

\* the payload files of a cache directory
PayloadOn(files, cachePath) ==
  IF cachePath \in DOMAIN files
  THEN Range(files[cachePath].names) \cap EntryNames ELSE {}

\* C14: once the callback of a successful deferred write of entry E has run,
\* the cache directory holds no payload file but E whose name starts with
\* the 8-character prefix of E, whether or not the file was in the index,
\* and the payload files of every other prefix are the ones it held before.
C14_SweepRemovesSiblings ==
  [][\A t \in pending :
       SweepStep(t) =>
         LET P == Slice8(t.cacheFileName) IN
         /\ \A n \in PayloadOn(disk', t.cachePath) :
              StartsWith(n, P) => n = t.cacheFileName
         /\ {n \in PayloadOn(disk', t.cachePath) : ~StartsWith(n, P)}
              = {n \in PayloadOn(disk, t.cachePath) : ~StartsWith(n, P)}
    ]_vars

\* two deferred writes of distinct entries of one prefix in one cache
\* directory, both in the index of their Package, both written and both
\* followed by their callback
RacedPair(t1, t2) ==
  /\ t1.cacheFileName # t2.cacheFileName
  /\ Slice8(t1.cacheFileName) = Slice8(t2.cacheFileName)
  /\ t1.cachePath = t2.cachePath
  /\ t1.stage = "swept" /\ t2.stage = "swept"
  /\ t1.cacheFileName \in CacheKeys(CacheOf(t1.pkgInfo))
  /\ t2.cacheFileName \in CacheKeys(CacheOf(t2.pkgInfo))

\* C18: when two deferred writes of distinct entries with the same
\* 8-character prefix have both succeeded and both callbacks have run, at
\* least one of the two entries is on disk, in every order of the two writes
\* and the two callbacks.
C18_RacingSweepsKeepOne ==
  \A t1, t2 \in pending :
    RacedPair(t1, t2) =>
      {t1.cacheFileName, t2.cacheFileName} \cap PayloadOn(disk, t1.cachePath) # {}
====
